---------------------------- MODULE Spec2Model ----------------------------
(***************************************************************************)
(* Market Context Dashboard (src/app.py): the data acquisition and         *)
(* normalisation core.  The Streamlit script is modelled as a state        *)
(* machine: the cached fetch operations, the ^TNX fallback of the 10-year  *)
(* yield, the Close-price normaliser and the signal engine.                *)
(*                                                                         *)
(* Numbers.  A pandas float is a record [nan, num, den]: either NaN or the *)
(* exact rational num/den (den > 0), so that "/ 10.0" and the percent      *)
(* changes are computed exactly and threshold comparisons are decided by   *)
(* cross-multiplication.  Yields are written in hundredths of a percent    *)
(* (425 over 100 is 4.25).  A Python "float or None" local is a record     *)
(* [some, v].                                                              *)
(*                                                                         *)
(* Frames.  A pandas DataFrame is [none, multi, nrows, cols]; cols is the  *)
(* sequence of columns, each [key, vals] with key the column label (a      *)
(* tuple of one element for a flat index, of two for a MultiIndex) and     *)
(* vals the nrows values of the column.                                    *)
(***************************************************************************)
EXTENDS Integers, Sequences, FiniteSets, TLC

VARIABLES
    nzIn, nzOut,                  \* normaliser: the tables given, the results
    fbIn, fbOut,                  \* fetch_10y_yield_series body: responses, outcome
    sgPc, sgLoc, sgRet,           \* compute_signals: position, locals, return value
    sgObs,                        \* what the series fetched by compute_signals held
    cache,                        \* st.cache_data's entry of each cached call, with its age
    pc,                           \* the position of the script run
    news,                         \* the list fetch_yahoo_rss returned to line 210
    last,                         \* the last cached call: what it found and asked
    pass                          \* the requests and failures of this script run

vars == <<nzIn, nzOut, fbIn, fbOut, sgPc, sgLoc, sgRet, sgObs,
          cache, pc, news, last, pass>>
mainVars == <<cache, pc, news, last, pass>>
nzVars == <<nzIn, nzOut>>
fbVars == <<fbIn, fbOut>>
sgVars == <<sgPc, sgLoc, sgRet, sgObs>>

(***************************************************************************)
(* Bounds of the model.                                                    *)
(***************************************************************************)
MaxRows == 2        \* rows of a table or series
MaxTickers == 2     \* tickers of one compound table
MaxItems == 1       \* items of one RSS feed

(***************************************************************************)
(* Numbers                                                                 *)
(***************************************************************************)
NaN == [nan |-> TRUE, num |-> 0, den |-> 1]
F(n, d) == [nan |-> FALSE, num |-> n, den |-> d]
NoneV == [some |-> FALSE, v |-> NaN]
Some(x) == [some |-> TRUE, v |-> x]

\* x >= n/d and x <= n/d for a non-NaN x (den > 0 on both sides)
Ge(x, n, d) == x.num * d >= n * x.den
Le(x, n, d) == x.num * d <= n * x.den

\* Series.dropna()
NotNaN(x) == ~x.nan
DropNa(s) == SelectSeq(s, NotNaN)

SeqsUpTo(S, n) == UNION {[1..k -> S] : k \in 0..n}
Map1(s, Op(_)) == [i \in 1..Len(s) |-> Op(s[i])]

(***************************************************************************)
(* Frames                                                                  *)
(***************************************************************************)
Frame(multi, nrows, cols) ==
    [none |-> FALSE, multi |-> multi, nrows |-> nrows, cols |-> cols]
NoneFrame == [none |-> TRUE, multi |-> FALSE, nrows |-> 0, cols |-> <<>>]
\* pd.DataFrame()
EmptyFrame == Frame(FALSE, 0, <<>>)
\* DataFrame.empty: some axis has length 0
IsEmpty(df) == df.cols = <<>> \/ df.nrows = 0

\* df.columns.get_level_values(lvl), lvl counted from 0 as in the source
LevelValues(df, lvl) == {df.cols[i].key[lvl + 1] : i \in 1..Len(df.cols)}
NLevels(df) == IF df.cols = <<>> THEN 2 ELSE Len(df.cols[1].key)
DropLevel(key, lvl) ==
    [i \in 1..(Len(key) - 1) |-> IF i <= lvl THEN key[i] ELSE key[i + 1]]

\* df["Close"] (lvl = 0) and df.xs("Close", axis=1, level=lvl): the columns whose
\* label has "Close" at that level, the level dropped from the labels
XsClose(df, lvl) ==
    LET Has(c) == c.key[lvl + 1] = "Close"
        Strip(c) == [key |-> DropLevel(c.key, lvl), vals |-> c.vals]
    IN  Frame(NLevels(df) > 2, df.nrows, Map1(SelectSeq(df.cols, Has), Strip))

\* close.columns = [c[0] if isinstance(c, tuple) else c for c in close.columns]
FlattenCols(close) ==
    LET First(c) == [key |-> <<c.key[1]>>, vals |-> c.vals]
    IN  IF close.multi THEN Frame(FALSE, close.nrows, Map1(close.cols, First))
        ELSE close

\* the first level of the last-resort scan that contains "Close"
ScanLevels(df) == {lvl \in 0..(NLevels(df) - 1) : "Close" \in LevelValues(df, lvl)}
MinOf(S) == CHOOSE x \in S : \A y \in S : x <= y

\* _normalize_close with the inner-level branch projecting on the outer level
NormalizeCloseOuterOnly(df, tickers) ==
    IF df.none \/ IsEmpty(df) THEN EmptyFrame
    ELSE IF df.multi THEN
        IF "Close" \in LevelValues(df, 0) THEN FlattenCols(XsClose(df, 0))
        ELSE IF "Close" \in LevelValues(df, 1) THEN FlattenCols(XsClose(df, 0))
        ELSE EmptyFrame
    ELSE IF \E i \in 1..Len(df.cols) : df.cols[i].key = <<"Close">> THEN
        LET IsClose(c) == c.key = <<"Close">>
            Named(c) == [key |-> <<tickers.names[1]>>, vals |-> c.vals]
        IN  IF tickers.isStr \/ Len(tickers.names) = 1
            THEN Frame(FALSE, df.nrows, Map1(SelectSeq(df.cols, IsClose), Named))
            ELSE Frame(FALSE, df.nrows, SelectSeq(df.cols, IsClose))
    ELSE EmptyFrame

\* _normalize_close(df, tickers); tickers is [isStr, names]
NormalizeClose(df, tickers) ==
    IF df.none \/ IsEmpty(df) THEN EmptyFrame
    ELSE IF df.multi THEN
        IF "Close" \in LevelValues(df, 0) THEN FlattenCols(XsClose(df, 0))
        ELSE IF "Close" \in LevelValues(df, 1) THEN FlattenCols(XsClose(df, 1))
        ELSE IF ScanLevels(df) = {} THEN EmptyFrame
        ELSE FlattenCols(XsClose(df, MinOf(ScanLevels(df))))
    ELSE IF \E i \in 1..Len(df.cols) : df.cols[i].key = <<"Close">> THEN
        LET IsClose(c) == c.key = <<"Close">>
            close == SelectSeq(df.cols, IsClose)
            Named(c) == [key |-> <<tickers.names[1]>>, vals |-> c.vals]
        IN  IF tickers.isStr \/ Len(tickers.names) = 1
            THEN Frame(FALSE, df.nrows, Map1(close, Named))
            ELSE Frame(FALSE, df.nrows, close)
    ELSE EmptyFrame

(***************************************************************************)
(* Upstream responses                                                      *)
(***************************************************************************)
Raise(e) == [raised |-> TRUE, err |-> e, series |-> <<>>]
Ok(s) == [raised |-> FALSE, err |-> "", series |-> s]

\* pd.to_numeric(cell, errors="coerce") on the text of a DGS10 cell
ToNumeric(cell) ==
    CASE cell = "4.24" -> F(424, 100)
      [] cell = "4.25" -> F(425, 100)
      [] OTHER -> NaN

\* pd.to_datetime(cell, errors="coerce"): "bad" is text that is no date (NaT);
\* "old" and "recent" are dates before and within the trailing 120 days
IsNaT(date) == date \notin {"old", "recent"}

\* The body of fetch_fred_10y_csv on the response of requests.get.  The DATE
\* column parses to a timezone-aware dtype only if its dates carry an offset
\* (resp.tz = "utc") and at least one parses; FRED's own dates (2024-01-02) carry
\* none.  pd.Timestamp.utcnow() is timezone-aware, and pandas raises TypeError on
\* the ordering comparison of a timezone-naive column with it (line 97).
FetchFredBody(resp) ==
    IF resp.kind = "transport" THEN Raise("ConnectionError")
    ELSE IF resp.kind = "http_error" THEN Raise("HTTPError")
    ELSE IF resp.kind = "bad_csv" THEN Raise("ParserError")
    ELSE IF ~({"DATE", "DGS10"} \subseteq resp.header)
        THEN Raise("ValueError: FRED CSV missing expected columns")
    ELSE
        LET Dated(r) == ~IsNaT(r.date)
            Valued(r) == ~ToNumeric(r.val).nan
            Recent(r) == r.date = "recent"
            Yield(r) == ToNumeric(r.val)
            aware == resp.tz = "utc" /\ \E i \in 1..Len(resp.rows) : Dated(resp.rows[i])
        IN  IF ~aware THEN Raise("TypeError: Invalid comparison")
            ELSE Ok(Map1(SelectSeq(SelectSeq(SelectSeq(resp.rows, Dated), Valued),
                                   Recent), Yield))

\* close.iloc[:, 0] / 10.0
Div10(x) == IF x.nan THEN NaN ELSE F(x.num, x.den * 10)

TnxArg == [isStr |-> TRUE, names |-> <<"^TNX">>]

\* fetch_10y_yield_series where an empty normalised ^TNX table is returned as an
\* empty series
Fetch10yEmptyOk(fred, tnx) ==
    IF ~fred.raised THEN [raised |-> FALSE, err |-> "", series |-> fred.series,
                          fallback |-> FALSE]
    ELSE IF tnx.raised THEN [raised |-> TRUE, err |-> tnx.err, series |-> <<>>,
                             fallback |-> TRUE]
    ELSE
        LET close == NormalizeClose(tnx.frame, TnxArg)
        IN  [raised |-> FALSE, err |-> "", fallback |-> TRUE,
             series |-> IF IsEmpty(close) THEN <<>>
                        ELSE Map1(close.cols[1].vals, Div10)]

\* The body of fetch_10y_yield_series: fred is the outcome of the (cached) call
\* fetch_fred_10y_csv(), tnx the outcome of yf.download("^TNX"), which is made
\* only if fred raised (fallback = TRUE).
Fetch10yBody(fred, tnx) ==
    IF ~fred.raised THEN [raised |-> FALSE, err |-> "", series |-> fred.series,
                          fallback |-> FALSE]
    ELSE IF tnx.raised THEN [raised |-> TRUE, err |-> tnx.err, series |-> <<>>,
                             fallback |-> TRUE]
    ELSE
        LET close == NormalizeClose(tnx.frame, TnxArg)
        IN  IF IsEmpty(close)
            THEN [raised |-> TRUE, series |-> <<>>, fallback |-> TRUE,
                  err |-> "ValueError: Unable to fetch ^TNX fallback from Yahoo Finance."]
            ELSE [raised |-> FALSE, err |-> "", fallback |-> TRUE,
                  series |-> Map1(close.cols[1].vals, Div10)]

(***************************************************************************)
(* The responses the upstreams are drawn from                              *)
(***************************************************************************)
DateCells == {"bad", "old", "recent"}
YieldCells == {".", "4.24", "4.25"}
FredRows == SeqsUpTo([date : DateCells, val : YieldCells], MaxRows)
FredResponses ==
    {[kind |-> k, header |-> {}, tz |-> "naive", rows |-> <<>>] :
        k \in {"transport", "http_error", "bad_csv"}}
    \cup {[kind |-> "csv", header |-> h, tz |-> "naive", rows |-> <<>>] :
        h \in {{"DATE"}, {"DGS10"}, {"observation_date", "DGS10"}}}
    \cup {[kind |-> "csv", header |-> {"DATE", "DGS10"}, tz |-> z, rows |-> rs] :
        z \in {"naive", "utc"}, rs \in FredRows}

Ones(n) == [i \in 1..n |-> F(1, 1)]
\* the ticker-major table of one ticker t: columns (t, Open) and (t, Close)
TickerMajor1(t, vals) ==
    Frame(TRUE, Len(vals), <<[key |-> <<t, "Open">>, vals |-> Ones(Len(vals))],
                             [key |-> <<t, "Close">>, vals |-> vals]>>)
\* the shapes yf.download returns for one ticker t with Close values vals
RawShapes(t, vals) ==
    LET n == Len(vals)
        open == [key |-> <<"Open">>, vals |-> Ones(n)]
    IN  { Frame(FALSE, n, <<open, [key |-> <<"Close">>, vals |-> vals]>>),
          Frame(FALSE, n, <<open>>),
          TickerMajor1(t, vals),
          Frame(TRUE, n, <<[key |-> <<"Close", t>>, vals |-> vals],
                           [key |-> <<"Open", t>>, vals |-> Ones(n)]>>),
          Frame(TRUE, n, <<[key |-> <<t, "Open">>, vals |-> Ones(n)]>>) }
Download(f) == [raised |-> FALSE, err |-> "", frame |-> f]
DownloadRaises == [raised |-> TRUE, err |-> "ConnectionError", frame |-> NoneFrame]
TnxQuotes == {NaN, F(424, 10), F(425, 10)}
TnxDownloads ==
    {DownloadRaises, Download(NoneFrame), Download(EmptyFrame)}
    \cup {Download(f) : f \in UNION {RawShapes("^TNX", v) : v \in SeqsUpTo(TnxQuotes, MaxRows)}}

(***************************************************************************)
(* fetch_yf_series and the signal engine                                   *)
(***************************************************************************)
\* The body of fetch_yf_series(tickers, ...): dl is the outcome of yf.download,
\* whose exception, if any, propagates.
FetchYfBody(dl, tickers) ==
    IF dl.raised THEN [raised |-> TRUE, err |-> dl.err, frame |-> NoneFrame]
    ELSE [raised |-> FALSE, err |-> "", frame |-> NormalizeClose(dl.frame, tickers)]

\* (b / a - 1.0) * 100.0, exactly
PctChange(a, b) ==
    F((b.num * a.den - a.num * b.den) * 100, a.num * b.den)

\* pct_change_first_last(series)
PctChangeFirstLast(series) ==
    LET s == DropNa(series)
    IN  IF Len(s) >= 2 THEN PctChange(s[1], s[Len(s)]) ELSE F(0, 1)

\* pct_change_last_two(series)
PctChangeLastTwo(series) ==
    LET s == DropNa(series)
    IN  IF Len(s) >= 2 THEN PctChange(s[Len(s) - 1], s[Len(s)]) ELSE F(0, 1)

\* gv.rename(columns=alias)
Alias(name) ==
    CASE name = "GC=F" -> "Gold" [] name = "^VIX" -> "VIX" [] OTHER -> name
Rename(df) ==
    LET R(c) == [key |-> <<Alias(c.key[1])>>, vals |-> c.vals]
    IN  Frame(df.multi, df.nrows, Map1(df.cols, R))
HasCol(df, name) == \E i \in 1..Len(df.cols) : df.cols[i].key = <<name>>
\* gv[name]
Col(df, name) == df.cols[CHOOSE i \in 1..Len(df.cols) : df.cols[i].key = <<name>>].vals

\* lines 144-148: ten is the outcome of fetch_10y_yield_series()
Last10y(ten) ==
    IF ten.raised THEN NoneV
    ELSE IF DropNa(ten.series) = <<>> THEN NoneV      \* iloc[-1] raises IndexError
    ELSE Some(DropNa(ten.series)[Len(DropNa(ten.series))])

\* lines 153-159: gv is the table fetch_yf_series returned for Gold and VIX
GoldVix(gv0) ==
    IF ~IsEmpty(gv0) THEN
        LET gv == Rename(gv0)
        IN  [gold_1m |-> IF HasCol(gv, "Gold")
                         THEN Some(PctChangeFirstLast(Col(gv, "Gold"))) ELSE NoneV,
             vix_1m |-> IF HasCol(gv, "VIX")
                        THEN Some(PctChangeFirstLast(Col(gv, "VIX"))) ELSE NoneV,
             vix_last |-> IF HasCol(gv, "VIX") /\ DropNa(Col(gv, "VIX")) # <<>>
                          THEN Some(DropNa(Col(gv, "VIX"))[Len(DropNa(Col(gv, "VIX")))])
                          ELSE NoneV]
    ELSE [gold_1m |-> NoneV, vix_1m |-> NoneV, vix_last |-> NoneV]

\* lines 164-165: pct_change_last_two(tech.iloc[:, 0]) if not tech.empty else None
Sector1d(df) ==
    IF ~IsEmpty(df) THEN Some(PctChangeLastTwo(df.cols[1].vals)) ELSE NoneV

Sig(name, v, label) == <<[name |-> name, value |-> v, label |-> label]>>
\* lines 167-177; the formatted value of a signal is kept as the number formatted
Signals(l) ==
    (IF l.vix_last.some
        THEN Sig("VIX", l.vix_last.v,
                 IF Ge(l.vix_last.v, 20, 1) THEN "Premium rich" ELSE "Normal")
        ELSE <<>>)
    \o (IF l.last_10y.some
        THEN Sig("10Y Yield", l.last_10y.v,
                 IF Ge(l.last_10y.v, 425, 100) THEN "Growth headwind" ELSE "Neutral/Tailwind")
        ELSE <<>>)
    \o (IF l.gold_1m.some
        THEN Sig("Gold 1M", l.gold_1m.v,
                 IF Ge(l.gold_1m.v, 2, 1) THEN "Risk-off" ELSE "Neutral")
        ELSE <<>>)
    \o (IF l.tech_1d.some
        THEN Sig("XLK 1D", l.tech_1d.v,
                 IF Le(l.tech_1d.v, -1, 1) THEN "Tech weak" ELSE "Stable/Strong")
        ELSE <<>>)
    \o (IF l.hlth_1d.some
        THEN Sig("XLV 1D", l.hlth_1d.v,
                 IF Ge(l.hlth_1d.v, 1, 2) THEN "Defensive bid" ELSE "Neutral")
        ELSE <<>>)

\* the advice fragments of lines 182, 184, 186, 188 and 190, by their first words
FragCredit == "Premiums up -> good for credit strategies"
FragYields == "High yields -> pressure on growth/AI"
FragTech == "Tech weak -> consider covered calls"
FragRiskOff == "Risk-off tone -> tighten DTE/size"
FragNeutral == "Neutral backdrop -> standard rules"

\* the guidance list with the yield compared by > instead of >=
GuidanceStrictYield(l) ==
    LET g == (IF l.vix_last.some /\ Ge(l.vix_last.v, 20, 1) THEN <<FragCredit>> ELSE <<>>)
          \o (IF l.last_10y.some /\ ~Le(l.last_10y.v, 425, 100) THEN <<FragYields>> ELSE <<>>)
          \o (IF l.tech_1d.some /\ Le(l.tech_1d.v, -1, 1) THEN <<FragTech>> ELSE <<>>)
          \o (IF l.gold_1m.some /\ Ge(l.gold_1m.v, 2, 1) THEN <<FragRiskOff>> ELSE <<>>)
    IN  IF g = <<>> THEN <<FragNeutral>> ELSE g

\* lines 179-190: the list that " * ".join(guidance) joins; the joined string is
\* empty exactly if the list is
Guidance(l) ==
    LET g == (IF l.vix_last.some /\ Ge(l.vix_last.v, 20, 1) THEN <<FragCredit>> ELSE <<>>)
          \o (IF l.last_10y.some /\ Ge(l.last_10y.v, 425, 100) THEN <<FragYields>> ELSE <<>>)
          \o (IF l.tech_1d.some /\ Le(l.tech_1d.v, -1, 1) THEN <<FragTech>> ELSE <<>>)
          \o (IF l.gold_1m.some /\ Ge(l.gold_1m.v, 2, 1) THEN <<FragRiskOff>> ELSE <<>>)
    IN  IF g = <<>> THEN <<FragNeutral>> ELSE g

(***************************************************************************)
(* fetch_yahoo_rss and st.cache_data                                       *)
(***************************************************************************)
NoTag == "<absent>"
Take(s, n) ==
    IF n >= 0 THEN SubSeq(s, 1, IF n < Len(s) THEN n ELSE Len(s))
    ELSE SubSeq(s, 1, IF Len(s) + n > 0 THEN Len(s) + n ELSE 0)
\* lines 40-44: one dictionary per item, a placeholder for each absent tag
NewsItem(it) ==
    [title |-> IF it.title = NoTag THEN "Untitled" ELSE it.title,
     link |-> IF it.link = NoTag THEN "" ELSE it.link,
     pubDate |-> IF it.pubDate = NoTag THEN "" ELSE it.pubDate]
\* The body of fetch_yahoo_rss(n) on the response of requests.get: a list is
\* returned on every path, the exception of a failed request included.
FetchRssBody(resp, n) ==
    IF resp.kind = "transport"
        THEN <<[title |-> "RSS error: ConnectionError", link |-> "", pubDate |-> ""]>>
    ELSE IF resp.kind = "http_error"
        THEN <<[title |-> "RSS error: HTTPError", link |-> "", pubDate |-> ""]>>
    ELSE Map1(Take(resp.items, n), NewsItem)

TtlNews == 600
TtlFred == 900
TtlTenYear == 900
TtlYf == 600
NewsCount == 8

\* st.cache_data(ttl) with "<=": an entry as old as its ttl is still served
CacheHitInclusive(e, ttl) == e.has /\ e.age <= ttl
\* st.cache_data(ttl=...): the entry e is served if it is younger than ttl
\* seconds (age is the time since it was stored)
CacheHit(e, ttl) == e.has /\ e.age < ttl

\* What st.cache_data keeps after the wrapped function ran: the value it
\* returned, of age 0; nothing if it raised.
Stored(raised, val, none) ==
    IF raised THEN [has |-> FALSE, age |-> 0, val |-> none]
    ELSE [has |-> TRUE, age |-> 0, val |-> val]

\* fetch_10y_yield_series asking FRED a second time before falling back
TenRequestsRetry(fredAsked, out) ==
    (IF fredAsked THEN <<"FRED">> ELSE <<>>)
    \o (IF out.fallback THEN <<"FRED", "^TNX">> ELSE <<>>)
\* The requests one run of the body of fetch_10y_yield_series issues: FRED if
\* fetch_fred_10y_csv() was not served from its cache, then ^TNX if the body
\* fell back.
TenRequests(fredAsked, out) ==
    (IF fredAsked THEN <<"FRED">> ELSE <<>>)
    \o (IF out.fallback THEN <<"^TNX">> ELSE <<>>)

(***************************************************************************)
(* SpecNormalize: _normalize_close on the two compound layouts of the same *)
(* Close values.                                                           *)
(***************************************************************************)
TickerPool == {"GC=F", "^VIX", "XLK"}
\* each ticker trades at a price of its own; a Close cell holds it or NaN
Quote(t) ==
    CASE t = "GC=F" -> F(2650, 1)
      [] t = "^VIX" -> F(19, 1)
      [] OTHER -> F(230, 1)
TickerLists ==
    {s \in SeqsUpTo(TickerPool, MaxTickers) :
        Len(s) >= 1 /\ \A i, j \in 1..Len(s) : i # j => s[i] # s[j]}
NormalizeInputs ==
    UNION {UNION {
        {[names |-> ns, nrows |-> n, asStr |-> a, closeFirst |-> cf,
          close |-> [t \in 1..Len(ns) |->
                        [r \in 1..n |-> IF quoted[t][r] THEN Quote(ns[t]) ELSE NaN]]] :
            quoted \in [1..Len(ns) -> [1..n -> BOOLEAN]],
            a \in {b \in BOOLEAN : b => Len(ns) = 1}, cf \in BOOLEAN}
        : n \in 0..MaxRows} : ns \in TickerLists}

Fields(in) == IF in.closeFirst THEN <<"Close", "Open">> ELSE <<"Open", "Close">>
ColVals(in, f, t) == IF f = "Close" THEN in.close[t] ELSE Ones(in.nrows)
\* field-major: the value tag in the outer position of the label
FieldMajor(in) ==
    LET T == Len(in.names)
    IN  Frame(TRUE, in.nrows,
              [i \in 1..(2 * T) |->
                  LET f == Fields(in)[((i - 1) \div T) + 1]
                      t == ((i - 1) % T) + 1
                  IN  [key |-> <<f, in.names[t]>>, vals |-> ColVals(in, f, t)]])
\* ticker-major: the value tag in the inner position of the label
TickerMajor(in) ==
    LET T == Len(in.names)
    IN  Frame(TRUE, in.nrows,
              [i \in 1..(2 * T) |->
                  LET t == ((i - 1) \div 2) + 1
                      f == Fields(in)[((i - 1) % 2) + 1]
                  IN  [key |-> <<in.names[t], f>>, vals |-> ColVals(in, f, t)]])

NzIdle == [done |-> FALSE, fm |-> EmptyFrame, tm |-> EmptyFrame]
FbInIdle == [fred |-> [kind |-> "transport", header |-> {}, tz |-> "naive", rows |-> <<>>],
             tnx |-> DownloadRaises]
FbIdle == [done |-> FALSE, primary |-> Raise(""), asked |-> <<>>,
           out |-> [raised |-> FALSE, err |-> "", series |-> <<>>, fallback |-> FALSE]]

SgLocIdle == [last_10y |-> NoneV, gold_1m |-> NoneV, vix_1m |-> NoneV,
              vix_last |-> NoneV, tech_1d |-> NoneV, hlth_1d |-> NoneV]
SgRetIdle == [signals |-> <<>>, guidance |-> <<>>]
Indicators == {"VIX", "10Y Yield", "Gold 1M", "XLK 1D", "XLV 1D"}
SgObsIdle == [valid |-> [i \in Indicators |-> FALSE], met |-> [i \in Indicators |-> FALSE]]

\* the variables of the other specifications, at rest
NzParked == nzIn = (CHOOSE in \in NormalizeInputs : in.nrows = 0) /\ nzOut = NzIdle
FbParked == fbIn = FbInIdle /\ fbOut = FbIdle
SgParked == sgPc = "off" /\ sgLoc = SgLocIdle /\ sgRet = SgRetIdle /\ sgObs = SgObsIdle

NoEntry(none) == [has |-> FALSE, age |-> 0, val |-> none]
CacheEmpty == [rss |-> NoEntry(<<>>), fred |-> NoEntry(<<>>), ten |-> NoEntry(<<>>),
               gv |-> NoEntry(EmptyFrame), XLK |-> NoEntry(EmptyFrame),
               XLV |-> NoEntry(EmptyFrame)]
Sources == {"FRED", "^TNX"}
LastIdle == [key |-> "none", live |-> FALSE, expired |-> FALSE, ret |-> <<>>,
             reqs |-> <<>>, raised |-> FALSE, failed |-> FALSE]
PassIdle == [ask |-> [x \in Sources |-> 0], failed |-> [x \in Sources |-> FALSE]]
MainParked ==
    /\ cache = CacheEmpty /\ pc = "off"
    /\ news = <<>> /\ last = LastIdle /\ pass = PassIdle

NormalizeBoth ==
    /\ ~nzOut.done
    /\ LET arg == [isStr |-> nzIn.asStr, names |-> nzIn.names]
       IN  nzOut' = [done |-> TRUE,
                     fm |-> NormalizeClose(FieldMajor(nzIn), arg),
                     tm |-> NormalizeClose(TickerMajor(nzIn), arg)]
    /\ UNCHANGED <<nzIn, fbVars, sgVars, mainVars>>

InitNormalize ==
    /\ nzIn \in NormalizeInputs
    /\ nzOut = NzIdle
    /\ FbParked
    /\ SgParked
    /\ MainParked
NextNormalize == NormalizeBoth
SpecNormalize == InitNormalize /\ [][NextNormalize]_vars

\* the canonical result: one single-level column per ticker, in request order
Canonical(in) ==
    IF in.nrows = 0 THEN EmptyFrame
    ELSE Frame(FALSE, in.nrows,
               [t \in 1..Len(in.names) |-> [key |-> <<in.names[t]>>, vals |-> in.close[t]]])

\* C9: the field-major and the ticker-major table of the same tickers and Close
\* values normalise to the identical result, the single-level ticker columns
\* with those values.
C9_LayoutsAgree ==
    nzOut.done => nzOut.fm = nzOut.tm /\ nzOut.fm = Canonical(nzIn)
C9_Witness ==
    /\ nzOut.done
    /\ Len(nzIn.names) = 2 /\ nzIn.nrows = 2
    /\ nzOut.tm = Canonical(nzIn)
    /\ nzIn.close[1] # nzIn.close[2]

(***************************************************************************)
(* SpecFallback: one uncached run of fetch_10y_yield_series on every pair  *)
(* of upstream responses.                                                  *)
(***************************************************************************)
Fetch10yUncached ==
    /\ ~fbOut.done
    /\ LET primary == FetchFredBody(fbIn.fred)
           out == Fetch10yBody(primary, fbIn.tnx)
       IN  fbOut' = [done |-> TRUE, primary |-> primary, out |-> out,
                     asked |-> IF out.fallback THEN <<"FRED", "^TNX">> ELSE <<"FRED">>]
    /\ UNCHANGED <<nzVars, fbIn, sgVars, mainVars>>

InitFallback ==
    /\ fbIn \in [fred : FredResponses, tnx : TnxDownloads]
    /\ fbOut = FbIdle
    /\ NzParked
    /\ SgParked
    /\ MainParked
NextFallback == Fetch10yUncached
SpecFallback == InitFallback /\ [][NextFallback]_vars

\* a structural failure of the primary: transport or HTTP error, a document
\* read_csv cannot parse, a missing DATE or DGS10 column
StructuralFailure(resp) ==
    resp.kind # "csv" \/ ~({"DATE", "DGS10"} \subseteq resp.header)
\* the rows of a well-formed primary response that parse and lie in the window
WindowRows(resp) ==
    LET Keep(r) == r.date = "recent" /\ r.val \in {"4.24", "4.25"}
    IN  SelectSeq(resp.rows, Keep)
\* the secondary yields no data: no table, or a table with no rows or columns
SecondaryEmpty(tnx) == ~tnx.raised /\ (tnx.frame.none \/ IsEmpty(tnx.frame))

\* C1: the secondary source is contacted only after a structural failure of the
\* primary; a well-formed primary response, even one with no row left, is returned
\* as a success without contacting the secondary.
C1_FallbackOnlyOnStructuralFailure ==
    fbOut.done =>
        /\ "^TNX" \in {fbOut.asked[i] : i \in 1..Len(fbOut.asked)}
              => StructuralFailure(fbIn.fred)
        /\ ~StructuralFailure(fbIn.fred) =>
              /\ ~fbOut.out.raised
              /\ Len(fbOut.out.series) = Len(WindowRows(fbIn.fred))
              /\ fbOut.asked = <<"FRED">>

\* C2 as claimed: both sources empty ends in an error, never in an empty success.
C2_BothEmptyIsError ==
    (/\ fbOut.done
     /\ ~StructuralFailure(fbIn.fred) /\ WindowRows(fbIn.fred) = <<>>
     /\ SecondaryEmpty(fbIn.tnx))
        => fbOut.out.raised

\* C2 as amended: when the primary attempt raised and the normalised secondary
\* table is empty, the call ends in the ValueError of line 112 with FRED and ^TNX
\* each asked once and nothing after; an empty series is returned as a success
\* only as the primary's own result.
C2_FailedPrimaryEmptySecondaryIsError ==
    fbOut.done =>
        /\ (/\ fbOut.primary.raised
            /\ ~fbIn.tnx.raised
            /\ IsEmpty(NormalizeClose(fbIn.tnx.frame, TnxArg)))
              => /\ fbOut.out.raised
                 /\ fbOut.out.err = "ValueError: Unable to fetch ^TNX fallback from Yahoo Finance."
                 /\ fbOut.asked = <<"FRED", "^TNX">>
        /\ (~fbOut.out.raised /\ fbOut.out.series = <<>>)
              => ~fbOut.primary.raised /\ fbOut.asked = <<"FRED">>
C2_Witness ==
    /\ fbOut.done
    /\ fbOut.primary.raised
    /\ SecondaryEmpty(fbIn.tnx)
    /\ fbOut.out.raised
    /\ fbOut.asked = <<"FRED", "^TNX">>

(***************************************************************************)
(* SpecSignals: compute_signals, fetch by fetch, on every outcome of its   *)
(* four fetches.  sgObs records, for each indicator, whether the series    *)
(* fetched for it held a non-missing point and whether its threshold is    *)
(* met, both read off the fetched data itself.                             *)
(***************************************************************************)
GoldPrices == {NaN, F(100, 1), F(103, 1)}
VixLevels == {NaN, F(19, 1), F(20, 1)}
XlkPrices == {NaN, F(100, 1), F(98, 1)}
XlvPrices == {NaN, F(200, 1), F(202, 1)}
GvArg == [isStr |-> FALSE, names |-> <<"GC=F", "^VIX">>]

GvTables ==
    UNION {
        {[names |-> <<"GC=F", "^VIX">>, nrows |-> n, close |-> <<g, v>>,
          asStr |-> FALSE, closeFirst |-> cf] :
            g \in [1..n -> GoldPrices], v \in [1..n -> VixLevels], cf \in BOOLEAN}
        \cup {[names |-> <<"GC=F">>, nrows |-> n, close |-> <<g>>,
               asStr |-> FALSE, closeFirst |-> cf] :
            g \in [1..n -> GoldPrices], cf \in BOOLEAN}
        \cup {[names |-> <<"^VIX">>, nrows |-> n, close |-> <<v>>,
               asStr |-> FALSE, closeFirst |-> cf] :
            v \in [1..n -> VixLevels], cf \in BOOLEAN}
        : n \in 0..MaxRows}
GvDownloads ==
    {DownloadRaises, Download(NoneFrame), Download(EmptyFrame)}
    \cup {Download(TickerMajor(t)) : t \in GvTables}
    \cup {Download(FieldMajor(t)) : t \in GvTables}
SectorDownloads(t, prices) ==
    {DownloadRaises, Download(NoneFrame), Download(EmptyFrame)}
    \cup {Download(f) : f \in UNION {RawShapes(t, v) : v \in SeqsUpTo(prices, MaxRows)}}

\* the Close values a download holds for ticker t (none if it holds none)
RawClose(dl, t) ==
    LET f == dl.frame
        idx == {i \in 1..Len(f.cols) :
                   f.cols[i].key \in {<<"Close">>, <<t, "Close">>, <<"Close", t>>}}
    IN  IF dl.raised \/ idx = {} THEN <<>> ELSE f.cols[CHOOSE i \in idx : TRUE].vals

ValidIdx(s) == {i \in 1..Len(s) : ~s[i].nan}
HasValid(s) == ValidIdx(s) # {}
MaxIdx(I) == CHOOSE i \in I : \A j \in I : j <= i
MinIdx(I) == CHOOSE i \in I : \A j \in I : i <= j
\* the latest non-missing value is at least n/d
LatestAtLeast(s, n, d) == HasValid(s) /\ Ge(s[MaxIdx(ValidIdx(s))], n, d)
\* 100 * (b/a - 1) >= n/d, for prices a, b > 0
ChangeAtLeast(a, b, n, d) ==
    (b.num * a.den - a.num * b.den) * 100 * d >= n * a.num * b.den
ChangeAtMost(a, b, n, d) ==
    (b.num * a.den - a.num * b.den) * 100 * d <= n * a.num * b.den
\* the change from the first to the last non-missing value is at least n/d
WindowChangeAtLeast(s, n, d) ==
    /\ Cardinality(ValidIdx(s)) >= 2
    /\ ChangeAtLeast(s[MinIdx(ValidIdx(s))], s[MaxIdx(ValidIdx(s))], n, d)
PrevIdx(s) == MaxIdx(ValidIdx(s) \ {MaxIdx(ValidIdx(s))})
\* the change between the last two non-missing values
LastTwoAtMost(s, n, d) ==
    /\ Cardinality(ValidIdx(s)) >= 2
    /\ ChangeAtMost(s[PrevIdx(s)], s[MaxIdx(ValidIdx(s))], n, d)
LastTwoAtLeast(s, n, d) ==
    /\ Cardinality(ValidIdx(s)) >= 2
    /\ ChangeAtLeast(s[PrevIdx(s)], s[MaxIdx(ValidIdx(s))], n, d)

Observe(ind, valid, met) ==
    [valid |-> [sgObs.valid EXCEPT ![ind] = valid], met |-> [sgObs.met EXCEPT ![ind] = met]]

\* lines 143-148
SigYield ==
    /\ sgPc = "yield"
    /\ \E fred \in FredResponses, tnx \in TnxDownloads :
        LET ten == Fetch10yBody(FetchFredBody(fred), tnx)
            series == IF ten.raised THEN <<>> ELSE ten.series
        IN  /\ sgLoc' = [sgLoc EXCEPT !.last_10y = Last10y(ten)]
            /\ sgObs' = Observe("10Y Yield", HasValid(series), LatestAtLeast(series, 425, 100))
    /\ sgPc' = "gv"
    /\ UNCHANGED <<sgRet, nzVars, fbVars, mainVars>>

\* lines 150-159
SigGoldVix ==
    /\ sgPc = "gv"
    /\ \E dl \in GvDownloads :
        LET r == FetchYfBody(dl, GvArg)
            gold == RawClose(dl, "GC=F")
            vix == RawClose(dl, "^VIX")
        IN  IF r.raised
            THEN sgPc' = "raised" /\ UNCHANGED <<sgLoc, sgObs>>
            ELSE /\ sgPc' = "tech"
                 /\ sgLoc' = [sgLoc EXCEPT !.gold_1m = GoldVix(r.frame).gold_1m,
                                           !.vix_1m = GoldVix(r.frame).vix_1m,
                                           !.vix_last = GoldVix(r.frame).vix_last]
                 /\ sgObs' = [valid |-> [sgObs.valid EXCEPT !["Gold 1M"] = HasValid(gold),
                                                            !["VIX"] = HasValid(vix)],
                              met |-> [sgObs.met EXCEPT
                                          !["Gold 1M"] = WindowChangeAtLeast(gold, 2, 1),
                                          !["VIX"] = LatestAtLeast(vix, 20, 1)]]
    /\ UNCHANGED <<sgRet, nzVars, fbVars, mainVars>>

\* lines 162 and 164 (the value of line 164 depends on the table of line 162 alone)
SigTech ==
    /\ sgPc = "tech"
    /\ \E dl \in SectorDownloads("XLK", XlkPrices) :
        LET r == FetchYfBody(dl, [isStr |-> TRUE, names |-> <<"XLK">>])
            s == RawClose(dl, "XLK")
        IN  IF r.raised
            THEN sgPc' = "raised" /\ UNCHANGED <<sgLoc, sgObs>>
            ELSE /\ sgPc' = "hlth"
                 /\ sgLoc' = [sgLoc EXCEPT !.tech_1d = Sector1d(r.frame)]
                 /\ sgObs' = Observe("XLK 1D", HasValid(s), LastTwoAtMost(s, -1, 1))
    /\ UNCHANGED <<sgRet, nzVars, fbVars, mainVars>>

\* lines 163 and 165
SigHlth ==
    /\ sgPc = "hlth"
    /\ \E dl \in SectorDownloads("XLV", XlvPrices) :
        LET r == FetchYfBody(dl, [isStr |-> TRUE, names |-> <<"XLV">>])
            s == RawClose(dl, "XLV")
        IN  IF r.raised
            THEN sgPc' = "raised" /\ UNCHANGED <<sgLoc, sgObs>>
            ELSE /\ sgPc' = "build"
                 /\ sgLoc' = [sgLoc EXCEPT !.hlth_1d = Sector1d(r.frame)]
                 /\ sgObs' = Observe("XLV 1D", HasValid(s), LastTwoAtLeast(s, 1, 2))
    /\ UNCHANGED <<sgRet, nzVars, fbVars, mainVars>>

\* lines 167-192
SigBuild ==
    /\ sgPc = "build"
    /\ sgRet' = [signals |-> Signals(sgLoc), guidance |-> Guidance(sgLoc)]
    /\ sgPc' = "returned"
    /\ UNCHANGED <<sgLoc, sgObs, nzVars, fbVars, mainVars>>

InitSignals ==
    /\ sgPc = "yield"
    /\ sgLoc = SgLocIdle
    /\ sgRet = SgRetIdle
    /\ sgObs = SgObsIdle
    /\ NzParked
    /\ FbParked
    /\ MainParked
NextSignals == SigYield \/ SigGoldVix \/ SigTech \/ SigHlth \/ SigBuild
SpecSignals == InitSignals /\ [][NextSignals]_vars

\* C5: compute_signals never raises, whatever the outcomes of its four fetches.
C5_NeverRaises == sgPc # "raised"

Occurrences(ind) ==
    Cardinality({i \in 1..Len(sgRet.signals) : sgRet.signals[i].name = ind})
\* C6: an indicator appears in the returned list exactly once if its series held
\* a non-missing point and not at all otherwise.
C6_SignalIffValidPoint ==
    sgPc = "returned" =>
        \A ind \in Indicators :
            Occurrences(ind) = IF sgObs.valid[ind] THEN 1 ELSE 0

\* C7 as claimed: the guidance is never empty and is the neutral fragment alone
\* exactly if none of the five thresholds is met.
C7_NeutralIffNoneOfFive ==
    sgPc = "returned" =>
        /\ sgRet.guidance # <<>>
        /\ sgRet.guidance = <<FragNeutral>> <=> \A ind \in Indicators : ~sgObs.met[ind]

\* C7 as amended: the guidance is never empty; it holds, in the order VIX, yield,
\* XLK, gold, the fragment of each of these four whose threshold is met, and is
\* the neutral fragment alone exactly if none of these four is met (the XLV
\* threshold has no fragment).
ExpectedGuidance(met) ==
    (IF met["VIX"] THEN <<FragCredit>> ELSE <<>>)
    \o (IF met["10Y Yield"] THEN <<FragYields>> ELSE <<>>)
    \o (IF met["XLK 1D"] THEN <<FragTech>> ELSE <<>>)
    \o (IF met["Gold 1M"] THEN <<FragRiskOff>> ELSE <<>>)
C7_GuidanceOfFour ==
    sgPc = "returned" =>
        /\ sgRet.guidance # <<>>
        /\ ExpectedGuidance(sgObs.met) # <<>> => sgRet.guidance = ExpectedGuidance(sgObs.met)
        /\ sgRet.guidance = <<FragNeutral>>
              <=> \A ind \in Indicators \ {"XLV 1D"} : ~sgObs.met[ind]
C7_Witness ==
    /\ sgPc = "returned"
    /\ sgObs.met["VIX"] /\ sgObs.met["Gold 1M"] /\ sgObs.met["XLK 1D"]
    /\ sgObs.met["10Y Yield"]
    /\ Len(sgRet.guidance) = 4

(***************************************************************************)
(* Spec: the script run (lines 198-276), one cached call per step, against *)
(* the process-wide caches of st.cache_data.  A rerun starts when the      *)
(* previous run has ended; time passes between runs, 300 s at a step (a    *)
(* run lasts seconds, the ttls are 600 s and 900 s).  The heatmap loop is followed   *)
(* for the two sector tickers compute_signals also fetches; its other nine *)
(* tickers have cache keys of their own.                                   *)
(***************************************************************************)
RssItems == {[title |-> "Fed holds rates", link |-> "https://finance.yahoo.com/a",
              pubDate |-> "Thu, 05 Nov 2026"],
             [title |-> NoTag, link |-> NoTag, pubDate |-> NoTag]}
RssSample ==
    {[kind |-> k, items |-> <<>>] : k \in {"transport", "http_error"}}
    \cup {[kind |-> "feed", items |-> its] : its \in SeqsUpTo(RssItems, MaxItems)}
FredCsv(tz, date, val) ==
    [kind |-> "csv", header |-> {"DATE", "DGS10"}, tz |-> tz,
     rows |-> <<[date |-> date, val |-> val]>>]
FredSample ==
    {[kind |-> "transport", header |-> {}, tz |-> "naive", rows |-> <<>>],
     [kind |-> "csv", header |-> {"observation_date", "DGS10"}, tz |-> "naive",
      rows |-> <<>>],
     FredCsv("naive", "recent", "4.25"), FredCsv("utc", "recent", "4.25"),
     FredCsv("utc", "old", "4.25")}
TnxSample ==
    {DownloadRaises, Download(EmptyFrame),
     Download(TickerMajor1("^TNX", <<F(425, 10)>>)),
     Download(TickerMajor1("^TNX", <<F(424, 10)>>))}
GvTable(g, v) ==
    [names |-> <<"GC=F", "^VIX">>, nrows |-> 1, close |-> <<<<g>>, <<v>>>>,
     asStr |-> FALSE, closeFirst |-> FALSE]
GvSample ==
    {DownloadRaises, Download(EmptyFrame),
     Download(TickerMajor(GvTable(F(100, 1), F(20, 1))))}
SectorSample(t) ==
    {DownloadRaises, Download(EmptyFrame), Download(TickerMajor1(t, <<F(100, 1)>>))}

\* One call of fetch_10y_yield_series() at position from; line 145 and line 221
\* both catch what it raises, so the run goes on to position to.
TenYear(from, to) ==
    /\ pc = from
    /\ pc' = to
    /\ LET e == cache.ten
           live == e.has /\ e.age < TtlTenYear
       IN  IF CacheHit(e, TtlTenYear)
           THEN /\ cache' = cache
                /\ last' = [key |-> "ten", live |-> live, expired |-> e.has /\ ~live,
                            ret |-> e.val, reqs |-> <<>>, raised |-> FALSE,
                            failed |-> FALSE]
                /\ pass' = pass
           ELSE \E fredResp \in FredSample, tnx \in TnxSample :
                LET fe == cache.fred
                    fhit == CacheHit(fe, TtlFred)
                    fred == IF fhit THEN Ok(fe.val) ELSE FetchFredBody(fredResp)
                    out == Fetch10yBody(fred, tnx)
                    reqs == TenRequests(~fhit, out)
                    asked(x) == Cardinality({i \in 1..Len(reqs) : reqs[i] = x})
                IN  /\ cache' = [cache EXCEPT
                            !.fred = IF fhit THEN fe
                                     ELSE Stored(fred.raised, fred.series, <<>>),
                            !.ten = Stored(out.raised, out.series, <<>>)]
                    /\ last' = [key |-> "ten", live |-> live, expired |-> e.has /\ ~live,
                                ret |-> out.series, reqs |-> reqs, raised |-> out.raised,
                                failed |-> out.raised]
                    /\ pass' = [ask |-> [x \in Sources |-> pass.ask[x] + asked(x)],
                                failed |-> [x \in Sources |->
                                    \/ pass.failed[x]
                                    \/ IF x = "FRED" THEN ~fhit /\ fred.raised
                                       ELSE out.fallback /\ out.raised]]
    /\ UNCHANGED <<news, nzVars, fbVars, sgVars>>

\* One call of fetch_yf_series(tickers, ...) at position from, cached under key;
\* no call site catches what it raises, so the script run ends there.
YfSeries(from, to, key, tickers, sample) ==
    /\ pc = from
    /\ LET e == cache[key]
           live == e.has /\ e.age < TtlYf
       IN  IF CacheHit(e, TtlYf)
           THEN /\ cache' = cache
                /\ pc' = to
                /\ last' = [key |-> key, live |-> live, expired |-> e.has /\ ~live,
                            ret |-> e.val, reqs |-> <<>>, raised |-> FALSE,
                            failed |-> FALSE]
           ELSE \E dl \in sample :
                LET out == FetchYfBody(dl, tickers)
                IN  /\ cache' = [cache EXCEPT
                                    ![key] = Stored(out.raised, out.frame, EmptyFrame)]
                    /\ pc' = IF out.raised THEN "idle" ELSE to
                    /\ last' = [key |-> key, live |-> live, expired |-> e.has /\ ~live,
                                ret |-> out.frame, reqs |-> <<key>>, raised |-> out.raised,
                                failed |-> dl.raised]
    /\ UNCHANGED <<news, pass, nzVars, fbVars, sgVars>>

SigTenYear == TenYear("sig_yield", "sig_gv")                              \* line 145
SigGv == YfSeries("sig_gv", "sig_tech", "gv", GvArg, GvSample)            \* line 152
SigXlk == YfSeries("sig_tech", "sig_hlth", "XLK",
                   [isStr |-> TRUE, names |-> <<"XLK">>], SectorSample("XLK"))  \* line 162
SigXlv == YfSeries("sig_hlth", "news", "XLV",
                   [isStr |-> TRUE, names |-> <<"XLV">>], SectorSample("XLV"))  \* line 163

\* line 210: fetch_yahoo_rss(n=8)
NewsSection ==
    /\ pc = "news"
    /\ pc' = "yield"
    /\ LET e == cache.rss
           live == e.has /\ e.age < TtlNews
       IN  IF CacheHit(e, TtlNews)
           THEN /\ cache' = cache
                /\ news' = e.val
                /\ last' = [key |-> "rss", live |-> live, expired |-> e.has /\ ~live,
                            ret |-> e.val, reqs |-> <<>>, raised |-> FALSE,
                            failed |-> FALSE]
           ELSE \E resp \in RssSample :
                LET out == FetchRssBody(resp, NewsCount)
                IN  /\ cache' = [cache EXCEPT !.rss = Stored(FALSE, out, <<>>)]
                    /\ news' = out
                    /\ last' = [key |-> "rss", live |-> live, expired |-> e.has /\ ~live,
                                ret |-> out, reqs |-> <<"rss">>, raised |-> FALSE,
                                failed |-> resp.kind # "feed"]
    /\ UNCHANGED <<pass, nzVars, fbVars, sgVars>>

YieldSection == TenYear("yield", "goldvix")                               \* line 221
GoldVixSection == YfSeries("goldvix", "heat_xlk", "gv", GvArg, GvSample)  \* line 234
HeatmapXlk == YfSeries("heat_xlk", "heat_xlv", "XLK",
                       [isStr |-> TRUE, names |-> <<"XLK">>], SectorSample("XLK"))  \* line 255
HeatmapXlv == YfSeries("heat_xlv", "idle", "XLV",
                       [isStr |-> TRUE, names |-> <<"XLV">>], SectorSample("XLV"))  \* line 255

\* Streamlit runs the script again from its first line
Rerun ==
    /\ pc = "idle"
    /\ pc' = "sig_yield"
    /\ pass' = PassIdle
    /\ last' = LastIdle
    /\ UNCHANGED <<cache, news, nzVars, fbVars, sgVars>>

\* 300 s pass: every entry is 300 s older (an age is counted up to the ttl, past
\* which the entry is expired whatever its age)
Older(e, ttl) == IF e.has /\ e.age < ttl THEN [e EXCEPT !.age = @ + 300] ELSE e
Tick ==
    /\ pc = "idle"
    /\ cache' = [rss |-> Older(cache.rss, TtlNews), fred |-> Older(cache.fred, TtlFred),
                 ten |-> Older(cache.ten, TtlTenYear), gv |-> Older(cache.gv, TtlYf),
                 XLK |-> Older(cache.XLK, TtlYf), XLV |-> Older(cache.XLV, TtlYf)]
    /\ cache' # cache
    /\ last' = LastIdle
    /\ UNCHANGED <<pc, news, pass, nzVars, fbVars, sgVars>>

Init ==
    /\ cache = CacheEmpty /\ pc = "sig_yield"
    /\ news = <<>> /\ last = LastIdle /\ pass = PassIdle
    /\ NzParked
    /\ FbParked
    /\ SgParked
Next ==
    \/ SigTenYear \/ SigGv \/ SigXlk \/ SigXlv
    \/ NewsSection \/ YieldSection \/ GoldVixSection \/ HeatmapXlk \/ HeatmapXlv
    \/ Rerun \/ Tick
Spec == Init /\ [][Next]_vars

\* C3: a call whose upstream fetch failed leaves no cache entry for its
\* arguments, so that the next call asks the upstream again.
C3_FailureLeavesNoEntry ==
    last.failed => ~cache[last.key].has

\* C4 as claimed: a call that finds a live entry returns its value and asks no
\* upstream; a call that finds an expired entry issues exactly one upstream
\* request and overwrites the entry.
C4_ServeThenOneRequest ==
    last.key # "none" =>
        /\ last.live =>
              /\ last.reqs = <<>> /\ ~last.raised
              /\ cache[last.key].has /\ last.ret = cache[last.key].val
        /\ last.expired =>
              /\ Len(last.reqs) = 1
              /\ cache[last.key].has /\ cache[last.key].age = 0

\* the request sequences one run of the body of the function cached under key
\* can issue
BodyRequests(key) ==
    IF key = "ten" THEN {<<"FRED">>, <<"FRED", "^TNX">>} ELSE {<<key>>}
\* C4 as amended: a call that finds a live entry returns its value and asks no
\* upstream; a call that finds an expired entry runs the function once, which
\* issues one request to each source it tries (FRED and, if FRED failed, ^TNX for
\* fetch_10y_yield_series; one request for the others), and the entry is
\* overwritten with the value returned, or dropped if the function raised.
C4_ServeThenRunOnce ==
    last.key # "none" =>
        /\ last.live =>
              /\ last.reqs = <<>> /\ ~last.raised
              /\ cache[last.key].has /\ last.ret = cache[last.key].val
        /\ last.expired =>
              /\ last.reqs \in BodyRequests(last.key)
              /\ cache[last.key].has <=> ~last.raised
              /\ cache[last.key].has =>
                    cache[last.key].age = 0 /\ cache[last.key].val = last.ret
C4_Witness ==
    /\ last.key = "ten" /\ last.expired
    /\ last.reqs = <<"FRED", "^TNX">>
    /\ cache.ten.has /\ cache.ten.age = 0

\* C8: the list fetch_yahoo_rss returns is never empty.
C8_NewsNeverEmpty ==
    last.key = "rss" => news # <<>>

\* C10 as claimed: within one script run a source that failed is not asked
\* again, so each yield source is asked at most once.
C10_FailedSourceAskedOnce ==
    \A x \in Sources : pass.failed[x] => pass.ask[x] <= 1

\* C10 as amended: one invocation of fetch_10y_yield_series asks each source at
\* most once, FRED first and ^TNX only after FRED failed; a failed invocation is
\* not cached, so in a script run in which both sources fail each source is asked
\* once per invocation, twice in all (line 145 and line 221).
C10_OncePerInvocation ==
    /\ last.key = "ten" => last.reqs \in {<<>>, <<"FRED">>, <<"FRED", "^TNX">>}
    /\ pass.ask["^TNX"] > 0 => pass.failed["FRED"]
    /\ \A x \in Sources :
          /\ pass.ask[x] <= 2
          /\ pass.ask[x] = 2 => pass.failed["FRED"] /\ pass.failed["^TNX"]
C10_Witness ==
    /\ pc = "goldvix"
    /\ pass.ask["FRED"] = 2 /\ pass.ask["^TNX"] = 2
    /\ last.key = "ten" /\ last.raised

=============================================================================
